---------------------------- MODULE Spec2Model ----------------------------
(***************************************************************************)
(* Startup of the inventory web service (dipakchaulagain/CI).              *)
(*                                                                         *)
(*   app/config.py     load_dotenv() and the body of class Config, which   *)
(*                     Python executes once, when the module is imported   *)
(*   app/extensions.py the five extension singletons                       *)
(*   app/__init__.py   create_app()                                        *)
(*                                                                         *)
(* Strings are TLA+ strings.  The process environment os.environ and the   *)
(* parsed .env file are functions from variable names to strings; a name   *)
(* outside the domain is an unset variable.                                *)
(***************************************************************************)
EXTENDS Integers, Sequences, FiniteSets, TLC

VARIABLES
    environ,   \* os.environ of the process
    dotenv,    \* the key/value pairs of the .env file (empty: no file)
    pc,        \* position of the import of app/config.py
    Config,    \* namespace of class Config: attribute name -> value
    arg,       \* the evaluated default argument of the pending os.getenv call
    exc,       \* the exception that ended the import, or "none"
    cpc,       \* position of the running create_app() call in Steps, 0: none
    app,       \* the Flask application the running call is building
    apps,      \* the applications create_app() has returned, in order
    modules,   \* the blueprint modules in sys.modules
    calls,     \* number of create_app() calls begun
    raised     \* number of create_app() calls ended by an exception

vars == <<environ, dotenv, pc, Config, arg, exc, cpc, app, apps, modules,
          calls, raised>>

importVars == <<pc, Config, arg, exc>>
callVars   == <<cpc, app, apps, modules, calls, raised>>

---------------------------------------------------------------------------
(* Bounds of the model.                                                    *)

\* os.urandom outcomes explored: seeds 0..MaxSeed
MaxSeed == 1
\* create_app() calls explored in one process
MaxCalls == 2

---------------------------------------------------------------------------
(* Strings, bytes and the two encodings of generated keys.                 *)

None == "<None>"

HexDigits == <<"0","1","2","3","4","5","6","7","8","9","a","b","c","d","e","f">>

\* bytes.hex(): two lower-case hexadecimal digits per byte
RECURSIVE hex(_)
hex(bytes) ==
    IF bytes = <<>> THEN ""
    ELSE HexDigits[(Head(bytes) \div 16) + 1] \o HexDigits[(Head(bytes) % 16) + 1]
         \o hex(Tail(bytes))

UrlSafeAlphabet ==
    <<"A","B","C","D","E","F","G","H","I","J","K","L","M","N","O","P",
      "Q","R","S","T","U","V","W","X","Y","Z","a","b","c","d","e","f",
      "g","h","i","j","k","l","m","n","o","p","q","r","s","t","u","v",
      "w","x","y","z","0","1","2","3","4","5","6","7","8","9","-","_">>

B64(i) == UrlSafeAlphabet[i + 1]

\* base64.urlsafe_b64encode followed by bytes.decode(): three bytes give four
\* characters, the last group is padded with "="
RECURSIVE urlsafe_b64encode(_)
urlsafe_b64encode(bytes) ==
    IF Len(bytes) = 0 THEN ""
    ELSE IF Len(bytes) = 1 THEN
        B64(bytes[1] \div 4) \o B64((bytes[1] % 4) * 16) \o "=="
    ELSE IF Len(bytes) = 2 THEN
        B64(bytes[1] \div 4) \o B64((bytes[1] % 4) * 16 + bytes[2] \div 16)
        \o B64((bytes[2] % 16) * 4) \o "="
    ELSE
        B64(bytes[1] \div 4) \o B64((bytes[1] % 4) * 16 + bytes[2] \div 16)
        \o B64((bytes[2] % 16) * 4 + bytes[3] \div 64) \o B64(bytes[3] % 64)
        \o urlsafe_b64encode(SubSeq(bytes, 4, Len(bytes)))

\* os.urandom(n) when it succeeds: n bytes.  The entropy source is a
\* nondeterministic choice; the outcomes explored are indexed by a seed.
urandom(n, seed) == [i \in 1..n |-> (seed * 97 + i * 31) % 256]

Seeds == 0..MaxSeed

\* os.urandom(24).hex()
SecretDefaults == {hex(urandom(24, s)) : s \in Seeds}

\* Fernet.generate_key().decode(): URL-safe base64 of 32 random bytes
FernetDefaults == {urlsafe_b64encode(urandom(32, s)) : s \in Seeds}

---------------------------------------------------------------------------
(* The environment.                                                        *)

SupportedVars == {"SECRET_KEY", "DATABASE_URL", "FERNET_KEY", "REDIS_URL"}

\* Every mapping of a subset of `names` to `values`
Mappings(names, values) == UNION {[S -> values] : S \in SUBSET names}

\* A lookup that treats an empty value as unset (os.getenv(key) or default)
getenv_or_default(key, default) ==
    IF key \in DOMAIN environ /\ environ[key] # "" THEN environ[key] ELSE default

\* os.getenv(key, default): the value of the variable when it is set, whatever
\* it is (the empty string included), and the default otherwise
getenv(key, default) ==
    IF key \in DOMAIN environ THEN environ[key] ELSE default

\* load_dotenv(override=True): the .env file wins over the environment
load_dotenv_override(env, file) ==
    [k \in DOMAIN env \cup DOMAIN file |->
        IF k \in DOMAIN file THEN file[k] ELSE env[k]]

\* load_dotenv() with its default override=False: every variable of the .env
\* file that the environment does not hold is added; a variable the
\* environment holds keeps its value
load_dotenv(env, file) ==
    [k \in DOMAIN env \cup DOMAIN file |->
        IF k \in DOMAIN env THEN env[k] ELSE file[k]]

---------------------------------------------------------------------------
(* app/config.py: the import of the module.                                *)

NoConfig == [k \in {} |-> None]

\* A policy in which default-src admits every origin
TALISMAN_CSP_widened ==
    ("default-src" :> "*")
    @@ ("style-src" :> <<"'self'", "https://cdn.jsdelivr.net">>)
    @@ ("script-src" :> <<"'self'", "https://cdn.jsdelivr.net">>)

TALISMAN_CSP ==
    ("default-src" :> "'self'")
    @@ ("style-src" :> <<"'self'", "https://cdn.jsdelivr.net">>)
    @@ ("script-src" :> <<"'self'", "https://cdn.jsdelivr.net">>)

\* The attributes of lines 11-20, which read nothing
StaticAttrs ==
    ("SQLALCHEMY_TRACK_MODIFICATIONS" :> FALSE)
    @@ ("WTF_CSRF_ENABLED" :> TRUE)
    @@ ("TALISMAN_ENABLED" :> TRUE)
    @@ ("TALISMAN_CSP" :> TALISMAN_CSP)
    @@ ("SESSION_COOKIE_HTTPONLY" :> TRUE)
    @@ ("SESSION_COOKIE_SAMESITE" :> "Lax")

\* NAME = value in the class body: the name is bound, or bound anew
Assign(namespace, name, value) ==
    [n \in DOMAIN namespace \cup {name} |->
        IF n = name THEN value ELSE namespace[n]]

\* An exception leaves the class body: no class Config comes to exist
Abort(e) ==
    /\ pc' = "failed"
    /\ exc' = e
    /\ Config' = NoConfig
    /\ arg' = None

\* line 6
LoadDotenv ==
    /\ pc = "L6"
    /\ environ' = load_dotenv(environ, dotenv)
    /\ pc' = "L9a"
    /\ UNCHANGED <<dotenv, Config, arg, exc, callVars>>

\* A default that is generated only when the variable is unset
EvalSecretDefault_lazy ==
    /\ pc = "L9a"
    /\ \/ /\ "SECRET_KEY" \in DOMAIN environ
          /\ arg' = None
          /\ pc' = "L9b"
          /\ UNCHANGED <<Config, exc>>
       \/ /\ "SECRET_KEY" \notin DOMAIN environ
          /\ \/ /\ \E s \in Seeds : arg' = hex(urandom(24, s))
                /\ pc' = "L9b"
                /\ UNCHANGED <<Config, exc>>
             \/ Abort("os.urandom")
    /\ UNCHANGED <<environ, dotenv, callVars>>

\* line 9, the argument os.urandom(24).hex(): Python evaluates the arguments
\* of a call before the call, so the key is generated whether or not
\* SECRET_KEY is set; os.urandom raises when no entropy source answers
EvalSecretDefault ==
    /\ pc = "L9a"
    /\ \/ /\ \E s \in Seeds : arg' = hex(urandom(24, s))
          /\ pc' = "L9b"
          /\ UNCHANGED <<Config, exc>>
       \/ Abort("os.urandom")
    /\ UNCHANGED <<environ, dotenv, callVars>>

\* line 9, the call and the assignment
AssignSecretKey ==
    /\ pc = "L9b"
    /\ Config' = Assign(Config, "SECRET_KEY", getenv("SECRET_KEY", arg))
    /\ arg' = None
    /\ pc' = "L10"
    /\ UNCHANGED <<environ, dotenv, exc, callVars>>

\* A default taken over from the line of REDIS_URL
AssignDatabaseUri_redis_default ==
    /\ pc = "L10"
    /\ Config' = Assign(Config, "SQLALCHEMY_DATABASE_URI",
                               getenv("DATABASE_URL",
                                      getenv("REDIS_URL", "sqlite:///inventory.db")))
    /\ pc' = "L11"
    /\ UNCHANGED <<environ, dotenv, arg, exc, callVars>>

\* line 10
AssignDatabaseUri ==
    /\ pc = "L10"
    /\ Config' = Assign(Config, "SQLALCHEMY_DATABASE_URI",
                               getenv("DATABASE_URL", "sqlite:///inventory.db"))
    /\ pc' = "L11"
    /\ UNCHANGED <<environ, dotenv, arg, exc, callVars>>

\* lines 11-20; a name bound again would take the new value
AssignStaticAttrs ==
    /\ pc = "L11"
    /\ Config' = StaticAttrs @@ Config
    /\ pc' = "L21a"
    /\ UNCHANGED <<environ, dotenv, arg, exc, callVars>>

\* line 21, the argument Fernet.generate_key().decode()
EvalFernetDefault ==
    /\ pc = "L21a"
    /\ \/ /\ \E s \in Seeds : arg' = urlsafe_b64encode(urandom(32, s))
          /\ pc' = "L21b"
          /\ UNCHANGED <<Config, exc>>
       \/ Abort("Fernet.generate_key")
    /\ UNCHANGED <<environ, dotenv, callVars>>

\* A load that refuses to run without FERNET_KEY
AssignFernetKey_required ==
    /\ pc = "L21b"
    /\ \/ /\ "FERNET_KEY" \in DOMAIN environ
          /\ Config' = Assign(Config, "FERNET_KEY", environ["FERNET_KEY"])
          /\ arg' = None
          /\ pc' = "L22"
          /\ UNCHANGED exc
       \/ /\ "FERNET_KEY" \notin DOMAIN environ
          /\ Abort("ConfigurationError")
    /\ UNCHANGED <<environ, dotenv, callVars>>

\* line 21, the call and the assignment
AssignFernetKey ==
    /\ pc = "L21b"
    /\ Config' = Assign(Config, "FERNET_KEY", getenv("FERNET_KEY", arg))
    /\ arg' = None
    /\ pc' = "L22"
    /\ UNCHANGED <<environ, dotenv, exc, callVars>>

\* line 22; the class body ends and class Config exists
AssignRateLimitUrl ==
    /\ pc = "L22"
    /\ Config' = Assign(Config, "RATE_LIMIT_STORAGE_URL",
                               getenv("REDIS_URL", "redis://redis:6379/0"))
    /\ pc' = "loaded"
    /\ UNCHANGED <<environ, dotenv, arg, exc, callVars>>

Import ==
    \/ LoadDotenv
    \/ EvalSecretDefault
    \/ AssignSecretKey
    \/ AssignDatabaseUri
    \/ AssignStaticAttrs
    \/ EvalFernetDefault
    \/ AssignFernetKey
    \/ AssignRateLimitUrl

---------------------------------------------------------------------------
(* app/__init__.py: create_app().                                          *)

\* Flask(__name__): an application with nothing applied to it yet
Flask ==
    [config |-> NoConfig, extensions |-> <<>>, blueprints |-> <<>>,
     tables |-> FALSE]

\* The blueprints registered before the extensions are initialized
Steps_reordered ==
    << [op |-> "from_object"],
       [op |-> "import", module |-> "app.auth.routes"],
       [op |-> "import", module |-> "app.api.auth"],
       [op |-> "import", module |-> "app.api.clients"],
       [op |-> "import", module |-> "app.api.networks"],
       [op |-> "import", module |-> "app.api.projects"],
       [op |-> "import", module |-> "app.api.users"],
       [op |-> "register_blueprint", bp |-> "auth_bp", url_prefix |-> "/auth"],
       [op |-> "register_blueprint", bp |-> "auth_api", url_prefix |-> "/api/auth"],
       [op |-> "register_blueprint", bp |-> "clients_api", url_prefix |-> "/api/clients"],
       [op |-> "register_blueprint", bp |-> "networks_api", url_prefix |-> "/api/networks"],
       [op |-> "register_blueprint", bp |-> "projects_api", url_prefix |-> "/api/projects"],
       [op |-> "register_blueprint", bp |-> "users_api", url_prefix |-> "/api/users"],
       [op |-> "init_app", ext |-> "db"],
       [op |-> "init_app", ext |-> "login_manager"],
       [op |-> "init_app", ext |-> "csrf"],
       [op |-> "init_app", ext |-> "talisman"],
       [op |-> "init_app", ext |-> "limiter"],
       [op |-> "create_all"],
       [op |-> "return"] >>

\* The statements of create_app() after line 13, in program order
Steps ==
    << [op |-> "from_object"],
       [op |-> "init_app", ext |-> "db"],
       [op |-> "init_app", ext |-> "login_manager"],
       [op |-> "init_app", ext |-> "csrf"],
       [op |-> "init_app", ext |-> "talisman"],
       [op |-> "init_app", ext |-> "limiter"],
       [op |-> "import", module |-> "app.auth.routes"],
       [op |-> "import", module |-> "app.api.auth"],
       [op |-> "import", module |-> "app.api.clients"],
       [op |-> "import", module |-> "app.api.networks"],
       [op |-> "import", module |-> "app.api.projects"],
       [op |-> "import", module |-> "app.api.users"],
       [op |-> "register_blueprint", bp |-> "auth_bp", url_prefix |-> "/auth"],
       [op |-> "register_blueprint", bp |-> "auth_api", url_prefix |-> "/api/auth"],
       [op |-> "register_blueprint", bp |-> "clients_api", url_prefix |-> "/api/clients"],
       [op |-> "register_blueprint", bp |-> "networks_api", url_prefix |-> "/api/networks"],
       [op |-> "register_blueprint", bp |-> "projects_api", url_prefix |-> "/api/projects"],
       [op |-> "register_blueprint", bp |-> "users_api", url_prefix |-> "/api/users"],
       [op |-> "create_all"],
       [op |-> "return"] >>

Op == IF cpc = 0 THEN "none" ELSE Steps[cpc].op

\* A from_object that looks the two keys up again at the time of the call
from_object_reread(obj) ==
    [k \in DOMAIN obj |->
        IF k = "SECRET_KEY" THEN getenv("SECRET_KEY", obj[k])
        ELSE IF k = "FERNET_KEY" THEN getenv("FERNET_KEY", obj[k])
        ELSE obj[k]]

\* app.config.from_object(obj): the upper-case attributes of obj, copied as
\* they are at the call (every attribute of Config is upper-case)
from_object(obj) == [k \in DOMAIN obj |-> obj[k]]

\* lines 12-13; `from .config import Config` at line 9 of the package ran
\* when the package was imported, so create_app exists only once class
\* Config does
CallCreateApp ==
    /\ pc = "loaded"
    /\ cpc = 0
    /\ calls < MaxCalls
    /\ calls' = calls + 1
    /\ app' = Flask
    /\ cpc' = 1
    /\ UNCHANGED <<environ, dotenv, importVars, apps, modules, raised>>

\* line 14
FromObject ==
    /\ Op = "from_object"
    /\ app' = [app EXCEPT !.config = from_object(Config)]
    /\ cpc' = cpc + 1
    /\ UNCHANGED <<environ, dotenv, importVars, apps, modules, calls, raised>>

\* lines 17-21
InitExtension ==
    /\ Op = "init_app"
    /\ app' = [app EXCEPT !.extensions = Append(@, Steps[cpc].ext)]
    /\ cpc' = cpc + 1
    /\ UNCHANGED <<environ, dotenv, importVars, apps, modules, calls, raised>>

\* lines 24-29; a module already in sys.modules is not executed again
ImportBlueprint ==
    /\ Op = "import"
    /\ modules' = modules \cup {Steps[cpc].module}
    /\ cpc' = cpc + 1
    /\ UNCHANGED <<environ, dotenv, importVars, app, apps, calls, raised>>

\* lines 31-36
RegisterBlueprint ==
    /\ Op = "register_blueprint"
    /\ app' = [app EXCEPT !.blueprints = Append(@, Steps[cpc].url_prefix)]
    /\ cpc' = cpc + 1
    /\ UNCHANGED <<environ, dotenv, importVars, apps, modules, calls, raised>>

\* lines 39-40
CreateAll ==
    /\ Op = "create_all"
    /\ app' = [app EXCEPT !.tables = TRUE]
    /\ cpc' = cpc + 1
    /\ UNCHANGED <<environ, dotenv, importVars, apps, modules, calls, raised>>

\* line 42
Return ==
    /\ Op = "return"
    /\ apps' = Append(apps, app)
    /\ app' = Flask
    /\ cpc' = 0
    /\ UNCHANGED <<environ, dotenv, importVars, modules, calls, raised>>

\* The statements that call into an extension, a blueprint module or the
\* database, and so may raise; importing a module that sys.modules holds
\* executes nothing
MayRaise ==
    \/ Op \in {"init_app", "register_blueprint", "create_all"}
    \/ Op = "import" /\ Steps[cpc].module \notin modules

\* A failure of db.create_all() caught and passed over (try/except: pass)
StepRaises_swallowed ==
    /\ MayRaise
    /\ IF Op = "create_all"
       THEN /\ cpc' = cpc + 1
            /\ UNCHANGED <<app, raised>>
       ELSE /\ cpc' = 0
            /\ app' = Flask
            /\ raised' = raised + 1
    /\ UNCHANGED <<environ, dotenv, importVars, apps, modules, calls>>

\* create_app() has no try statement: an exception raised by a statement
\* leaves the function at once, and the application being built is dropped
StepRaises ==
    /\ MayRaise
    /\ cpc' = 0
    /\ app' = Flask
    /\ raised' = raised + 1
    /\ UNCHANGED <<environ, dotenv, importVars, apps, modules, calls>>

CreateApp ==
    \/ CallCreateApp
    \/ FromObject
    \/ InitExtension
    \/ ImportBlueprint
    \/ RegisterBlueprint
    \/ CreateAll
    \/ Return
    \/ StepRaises

---------------------------------------------------------------------------
(* The rest of the process: code that changes os.environ between calls.    *)

EnvValues == {"", "abc123", " aB "}

PutEnv ==
    /\ pc = "loaded"
    /\ cpc = 0
    /\ \E k \in {"SECRET_KEY", "FERNET_KEY"}, v \in EnvValues :
          environ' = [n \in DOMAIN environ \cup {k} |->
                         IF n = k THEN v ELSE environ[n]]
    /\ UNCHANGED <<dotenv, importVars, callVars>>

DelEnv ==
    /\ pc = "loaded"
    /\ cpc = 0
    /\ \E k \in {"SECRET_KEY", "FERNET_KEY"} \cap DOMAIN environ :
          environ' = [n \in DOMAIN environ \ {k} |-> environ[n]]
    /\ UNCHANGED <<dotenv, importVars, callVars>>

---------------------------------------------------------------------------
(* Specifications.                                                         *)

DotenvValues == {"from-file"}

InitProcess ==
    /\ pc = "L6"
    /\ Config = NoConfig
    /\ arg = None
    /\ exc = "none"
    /\ cpc = 0
    /\ app = Flask
    /\ apps = <<>>
    /\ modules = {}
    /\ calls = 0
    /\ raised = 0

\* The life of one process: the import, then any create_app() calls and
\* changes of the environment
Init ==
    /\ environ \in Mappings(SupportedVars, {"abc123"})
    /\ dotenv \in Mappings({"SECRET_KEY", "FLASK_ENV"}, DotenvValues)
    /\ InitProcess

Next == Import \/ CreateApp \/ PutEnv \/ DelEnv

Spec == Init /\ [][Next]_vars

\* The import alone, under every environment and .env file over the values
InitImport ==
    /\ environ \in Mappings(SupportedVars, EnvValues)
    /\ dotenv \in Mappings(SupportedVars \cup {"FLASK_ENV"}, DotenvValues)
    /\ InitProcess

SpecImport == InitImport /\ [][Import]_vars

---------------------------------------------------------------------------
(* Properties of the import (checked under SpecImport).                    *)

\* The configuration field each supported variable is read into
FieldOf ==
    ("SECRET_KEY" :> "SECRET_KEY")
    @@ ("DATABASE_URL" :> "SQLALCHEMY_DATABASE_URI")
    @@ ("FERNET_KEY" :> "FERNET_KEY")
    @@ ("REDIS_URL" :> "RATE_LIMIT_STORAGE_URL")

Loaded == pc = "loaded"

Set(k) == k \in DOMAIN environ

\* Once load_dotenv() has returned, the import leaves os.environ alone, so
\* the environment of a loaded state is the one the class body read
ImportReadsOneEnviron == [][pc # "L6" => environ' = environ]_vars

\* C1: every supported variable that is set gives its field exactly its
\* value (the empty string and a value with surrounding blanks included), and
\* load_dotenv() keeps the value of every variable that is set.
C1_SetValueIsUsedVerbatim ==
    /\ [](Loaded => \A k \in SupportedVars :
                        Set(k) => Config[FieldOf[k]] = environ[k])
    /\ [][pc = "L6" => \A k \in DOMAIN environ :
                          k \in DOMAIN environ' /\ environ'[k] = environ[k]]_vars
    /\ ImportReadsOneEnviron

C1_Witness ==
    /\ Loaded
    /\ Set("SECRET_KEY") /\ environ["SECRET_KEY"] = ""
    /\ Set("FERNET_KEY") /\ environ["FERNET_KEY"] = " aB "
    /\ "SECRET_KEY" \in DOMAIN dotenv
    /\ Config["SECRET_KEY"] = ""
    /\ Config["FERNET_KEY"] = " aB "

C6_DefaultDatabaseLocation ==
    /\ [](Loaded /\ ~Set("DATABASE_URL") =>
            /\ Config["SQLALCHEMY_DATABASE_URI"] = "sqlite:///inventory.db"
            /\ Set("SECRET_KEY") /\ environ["SECRET_KEY"] = "abc123"
                  => Config["SECRET_KEY"] = "abc123")
    /\ ImportReadsOneEnviron

C6_Witness ==
    /\ Loaded
    /\ ~Set("DATABASE_URL")
    /\ Set("SECRET_KEY") /\ environ["SECRET_KEY"] = "abc123"
    /\ Set("REDIS_URL") /\ Set("FERNET_KEY")
    /\ Config["SECRET_KEY"] = "abc123"
    /\ Config["SQLALCHEMY_DATABASE_URI"] = "sqlite:///inventory.db"

\* C10: both defaults are generated on every load, before the lookup and
\* whether or not the variable is set; a failure of the generation ends the
\* load with no configuration; and when the variable is set its value, not
\* the generated one, becomes the field, the generated value being dropped.
C10_DefaultsGeneratedEagerly ==
    /\ [][pc = "L9a" =>
            \/ pc' = "L9b" /\ arg' \in SecretDefaults
            \/ pc' = "failed" /\ exc' = "os.urandom" /\ Config' = NoConfig]_vars
    /\ [][pc = "L21a" =>
            \/ pc' = "L21b" /\ arg' \in FernetDefaults
            \/ pc' = "failed" /\ exc' = "Fernet.generate_key"
                              /\ Config' = NoConfig]_vars
    /\ [][pc = "L9b" /\ Set("SECRET_KEY") =>
            Config'["SECRET_KEY"] = environ["SECRET_KEY"] /\ arg' = None]_vars
    /\ [][pc = "L21b" /\ Set("FERNET_KEY") =>
            Config'["FERNET_KEY"] = environ["FERNET_KEY"] /\ arg' = None]_vars
    /\ [](pc \notin {"L9b", "L21b"} => arg = None)

C10_Witness ==
    /\ pc = "failed"
    /\ exc = "Fernet.generate_key"
    /\ Set("SECRET_KEY") /\ Set("FERNET_KEY")
    /\ Config = NoConfig

---------------------------------------------------------------------------
(* Properties of the process (checked under Spec).                         *)

ExtensionOrder == <<"db", "login_manager", "csrf", "talisman", "limiter">>

PrefixOrder ==
    <<"/auth", "/api/auth", "/api/clients", "/api/networks", "/api/projects",
      "/api/users">>

IsPrefix(s, t) == Len(s) <= Len(t) /\ s = SubSeq(t, 1, Len(s))

Running == IF cpc > 0 THEN 1 ELSE 0

\* C3, as claimed: no step of the import and no step of create_app() changes
\* the environment.
C3_EnvironNeverChanged == [][Import \/ CreateApp => environ' = environ]_vars

\* C3, amended: the load never changes or removes a variable the environment
\* holds; load_dotenv() adds exactly the variables of the .env file that the
\* environment lacks, with the file's values; the class body and create_app()
\* leave the environment as it is.
C3_EnvironOnlyExtendedByDotenv ==
    /\ [][pc = "L6" =>
            /\ DOMAIN environ' = DOMAIN environ \cup DOMAIN dotenv
            /\ \A k \in DOMAIN environ : environ'[k] = environ[k]
            /\ \A k \in DOMAIN dotenv \ DOMAIN environ :
                  environ'[k] = dotenv[k]]_vars
    /\ [][(Import \/ CreateApp) /\ pc # "L6" => environ' = environ]_vars

C3_Witness ==
    /\ Loaded
    /\ Len(apps) = 1
    /\ "SECRET_KEY" \in DOMAIN dotenv /\ "FLASK_ENV" \in DOMAIN dotenv
    /\ Set("SECRET_KEY") /\ environ["SECRET_KEY"] = "abc123"
    /\ Set("FLASK_ENV") /\ environ["FLASK_ENV"] = "from-file"

\* C4: class Config is fixed by the import and nothing changes it afterwards;
\* every application create_app() returns carries the SECRET_KEY and
\* FERNET_KEY of that one load, whatever the environment has become.
C4_KeysFixedAtFirstLoad ==
    /\ [](\A i \in 1..Len(apps) :
            /\ apps[i].config["SECRET_KEY"] = Config["SECRET_KEY"]
            /\ apps[i].config["FERNET_KEY"] = Config["FERNET_KEY"])
    /\ [][Loaded => Config' = Config /\ pc' = "loaded" /\ arg' = None]_vars

C4_Witness ==
    /\ Len(apps) = 2
    /\ Set("SECRET_KEY") /\ environ["SECRET_KEY"] # Config["SECRET_KEY"]
    /\ ~Set("FERNET_KEY")
    /\ apps[1].config["SECRET_KEY"] = Config["SECRET_KEY"]
    /\ apps[2].config["SECRET_KEY"] = Config["SECRET_KEY"]
    /\ apps[2].config["FERNET_KEY"] = Config["FERNET_KEY"]

\* C5: every application create_app() has returned went through every
\* startup step; a call ends either by returning one application or by an
\* exception that returns none; no step is run twice; and a failed import of
\* the configuration leaves no create_app() to call.
C5_NoPartialApplication ==
    /\ \A i \in 1..Len(apps) :
          /\ DOMAIN apps[i].config = DOMAIN Config
          /\ apps[i].extensions = ExtensionOrder
          /\ apps[i].blueprints = PrefixOrder
          /\ apps[i].tables
    /\ Len(apps) + raised + Running = calls
    /\ ~Loaded => calls = 0 /\ apps = <<>>
    /\ cpc = 0 => app = Flask

C5_Witness ==
    /\ calls = 2
    /\ raised = 1
    /\ Len(apps) = 1
    /\ cpc = 0

\* C8: the policy of every loaded configuration, and of every application
\* built from it, has the directive default-src with 'self' as its only
\* source, in every environment.
CspRestrictsDefaultSrc(c) ==
    /\ "TALISMAN_CSP" \in DOMAIN c
    /\ "default-src" \in DOMAIN c["TALISMAN_CSP"]
    /\ c["TALISMAN_CSP"]["default-src"] = "'self'"

C8_DefaultSrcIsSelf ==
    /\ Loaded => CspRestrictsDefaultSrc(Config)
    /\ cpc > 1 => CspRestrictsDefaultSrc(app.config)
    /\ \A i \in 1..Len(apps) : CspRestrictsDefaultSrc(apps[i].config)

C8_Witness ==
    /\ Len(apps) = 1
    /\ \A k \in SupportedVars : Set(k)
    /\ CspRestrictsDefaultSrc(apps[1].config)

\* C9: in every call the configuration is applied before any extension is
\* initialized, the extensions are initialized in the order db,
\* login_manager, csrf, talisman, limiter, the six route groups are
\* registered in order and only after the five extensions, the tables are
\* created only after the six registrations, and only then is the
\* application returned.
StartupOrder(a) ==
    /\ IsPrefix(a.extensions, ExtensionOrder)
    /\ IsPrefix(a.blueprints, PrefixOrder)
    /\ a.extensions # <<>> => DOMAIN a.config # {}
    /\ a.blueprints # <<>> => a.extensions = ExtensionOrder
    /\ a.tables => a.blueprints = PrefixOrder

C9_FixedStartupOrder ==
    /\ StartupOrder(app)
    /\ \A i \in 1..Len(apps) : StartupOrder(apps[i]) /\ apps[i].tables

C9_Witness ==
    /\ calls = 2
    /\ Len(apps) = 1
    /\ Op = "return"
    /\ app.tables
    /\ app.blueprints = PrefixOrder
    /\ app.extensions = ExtensionOrder

=============================================================================
